---- MODULE Spec2Model ----
(***************************************************************************)
(* Collaborative 3D-model viewer (Live Share sample 08.3d-model).          *)
(*                                                                         *)
(* The model follows the React components LoadingErrorWrapper,             *)
(* LiveObjectViewer and ModelViewerScene.  One action is one event         *)
(* delivered to the program (a context change, a viewer element event, a   *)
(* pointer event, an SDK state change, a render-loop tick) together with   *)
(* the re-render and the effects that the event's state updates trigger.   *)
(* Callbacks built with useCallback keep the values of the render in which *)
(* their dependency list last changed; the values a callback captured and  *)
(* that can differ from the current ones are kept in variables of their    *)
(* own (readyClosure, snapCamera, onPointerDown).                          *)
(***************************************************************************)
EXTENDS Integers, Sequences, FiniteSets, TLC

\* ------------------------------------------------------------------------
\* Bounds of the model
\* ------------------------------------------------------------------------
\* Largest number of camera moves waiting in onBeforeRenderObservable.
MaxPending == 2
\* The count of automatic startPresenting calls saturates at this value.
MaxAutoPresent == 2

\* ------------------------------------------------------------------------
\* Values
\* ------------------------------------------------------------------------
\* null / undefined for string-valued references.
Null == "null"
\* The scene and the camera handed over by the "viewerready" event.
TheScene == "scene"
TheCamera == "camera"
\* An absent optional tuple (no cameraPosition, no map entry).
Absent == <<>>

\* A JavaScript string used in a boolean position.
Truthy(s) == s # Null /\ s # ""

\* Hex colour strings, as sequences of characters.
Red == <<"#", "f", "f", "0", "0", "0", "0">>
Green == <<"#", "0", "0", "F", "F", "0", "0">>
HexValues == {Red, Green}
\* Color3 with channels scaled to 0..255.
White == <<255, 255, 255>>

HexDigit(c) ==
    CASE c = "0" -> 0 [] c = "1" -> 1 [] c = "2" -> 2 [] c = "3" -> 3
      [] c = "4" -> 4 [] c = "5" -> 5 [] c = "6" -> 6 [] c = "7" -> 7
      [] c = "8" -> 8 [] c = "9" -> 9
      [] c \in {"a", "A"} -> 10 [] c \in {"b", "B"} -> 11
      [] c \in {"c", "C"} -> 12 [] c \in {"d", "D"} -> 13
      [] c \in {"e", "E"} -> 14 [] c \in {"f", "F"} -> 15
      [] OTHER -> 0

\* Color3.FromHexString: anything that is not "#rrggbb" is black.
FromHexString(hex) ==
    IF Len(hex) # 7 \/ hex[1] # "#"
    THEN <<0, 0, 0>>
    ELSE << 16 * HexDigit(hex[2]) + HexDigit(hex[3]),
            16 * HexDigit(hex[4]) + HexDigit(hex[5]),
            16 * HexDigit(hex[6]) + HexDigit(hex[7]) >>

\* Materials of the loaded scene: "body" is a PBRMaterial, "glass" is a
\* material of another class.  "ghost" names no material of the scene.
SceneMaterials == {"body", "glass"}
MapKeys == {"body", "glass", "ghost"}
InitialMaterial ==
    [n \in SceneMaterials |->
        [kind |-> IF n = "body" THEN "pbr" ELSE "std", color |-> White]]
EmptyMap == [k \in MapKeys |-> Absent]
AllMaps == [MapKeys -> HexValues \cup {Absent}]

\* What a pointer-down picks: nothing, a mesh without material, or a mesh
\* with one of the scene's materials.
PickMiss == "miss"
PickNoMaterial == "meshWithoutMaterial"
Picks == {PickMiss, PickNoMaterial} \cup SceneMaterials

\* Camera positions (Vector3).
InitialCameraPos == <<0, 0, 0>>
Positions == {<<1, 2, 3>>, <<4, 5, 6>>}

\* FollowModeType
FollowModeTypes ==
    {"local", "activeFollowers", "activePresenter", "followPresenter",
     "suspendFollowPresenter", "followUser", "suspendFollowUser"}
\* remoteCameraState is undefined until the follow-mode object reports one.
UndefinedState ==
    [type |-> "undefined", isLocalValue |-> FALSE, cameraPosition |-> Absent]
FollowStates(types, positions) ==
    [type : types, isLocalValue : BOOLEAN,
     cameraPosition : positions \cup {Absent}]

\* LiveDataObjectInitializeState, "undefined" while liveFollowMode is.
InitializeStates == {"pending", "succeeded", "fatalError"}
\* sharingStatus?.isShareInitiator
ShareInitiatorValues == {"undefined", "false", "true"}

\* joinError: no error, or an Error with this message.
NoError == ""
ErrorMessages == {"join failed"}

VARIABLES
    joined,                       \* useLiveShareContext().joined
    joinError,                    \* useLiveShareContext().joinError
    rendered,                     \* what LoadingErrorWrapper returned last
    mounted,                      \* a LiveObjectViewer instance is mounted
    listeners,                    \* listeners on the babylon-viewer element
    viewerCamera,                 \* `let camera` of the ModelViewerScene effect
    readyClosure,                 \* values onReadyObservable captured
    sceneRef,                     \* sceneRef.current
    camera,                       \* useState camera
    selectedMaterialName,         \* useState selectedMaterialName
    sharedColorsMap,              \* useSharedMap().sharedMap is defined
    colorsMap,                    \* useSharedMap().map
    remoteCameraState,            \* useLiveFollowMode().state
    snapCamera,                   \* camera captured by snapCameraIfFollowingUser
    isApplyingRemoteCameraUpdate, \* isApplyingRemoteCameraUpdate.current
    initializeState,              \* liveFollowMode?.initializeState
    isShareInitiator,             \* sharingStatus?.isShareInitiator
    hasInitiallyPresentedRef,     \* hasInitiallyPresentedRef.current
    material,                     \* scene materials
    onPointerDown,                \* scene.onPointerDown
    beforeRender,                 \* scene.onBeforeRenderObservable (addOnce)
    viewMatrixObservers,          \* camera.onViewMatrixChangedObservable
    cameraPosition,               \* camera.position
    useAutoRotationBehavior,      \* camera.useAutoRotationBehavior
    lastEvent,                    \* the event handled last
    calls,                        \* calls the last event made to SDK and engine
    autoPresentCount              \* automatic startPresenting calls so far

vars ==
    << joined, joinError, rendered, mounted, listeners, viewerCamera, readyClosure,
       sceneRef, camera, selectedMaterialName, sharedColorsMap, colorsMap,
       remoteCameraState, snapCamera, isApplyingRemoteCameraUpdate,
       initializeState, isShareInitiator, hasInitiallyPresentedRef,
       material, onPointerDown, beforeRender, viewMatrixObservers,
       cameraPosition, useAutoRotationBehavior, lastEvent, calls,
       autoPresentCount >>

\* Groups of variables, for UNCHANGED.
contextVars == << joined, joinError, rendered >>
viewerVars == << mounted, listeners, viewerCamera, readyClosure >>
\* The React state and the engine objects that Render assigns.
renderVars ==
    << selectedMaterialName, sceneRef, camera, colorsMap, remoteCameraState,
       initializeState, isShareInitiator, snapCamera, onPointerDown,
       material, beforeRender, viewMatrixObservers,
       hasInitiallyPresentedRef, autoPresentCount >>
engineVars == << cameraPosition, useAutoRotationBehavior,
                 isApplyingRemoteCameraUpdate >>

\* ------------------------------------------------------------------------
\* Calls made to the collaboration SDK and to the 3D engine
\* ------------------------------------------------------------------------
Call(op, key, value) == [op |-> op, key |-> key, value |-> value]
SetEntryCall(key, value) == Call("setEntry", key, value)
UpdateCall(pos) == Call("update", "", pos)
BeginSuspensionCall == Call("beginSuspension", "", Absent)
StartPresentingCall == Call("startPresenting", "", Absent)
AddOnceCall(pos) == Call("addOnce", "", pos)
AutoRotationOffCall == Call("useAutoRotationBehavior=false", "", Absent)

Ops(cs) == {cs[i].op : i \in 1..Len(cs)}

\* ------------------------------------------------------------------------
\* LoadingErrorWrapper
\* ------------------------------------------------------------------------
TextNode(message) == [node |-> "Text", text |-> message]
SpinnerNode == [node |-> "Spinner", text |-> ""]
ChildrenNode == [node |-> "children", text |-> ""]

\* The wrapper with the check of joined before the check of joinError.
LoadingErrorWrapperJoinedFirst(j, e) ==
    IF ~j THEN SpinnerNode
    ELSE IF e # NoError THEN TextNode(e)
    ELSE ChildrenNode

LoadingErrorWrapper(j, e) ==
    IF e # NoError THEN TextNode(e)
    ELSE IF ~j THEN SpinnerNode
    ELSE ChildrenNode

\* LiveObjectViewer (and with it ModelViewerScene) is mounted.
Mounted == mounted

\* ------------------------------------------------------------------------
\* Callbacks of LiveObjectViewer
\* ------------------------------------------------------------------------
\* scene.getMaterialByName(name) is a PBRMaterial
IsPBR(mat, name) == name \in DOMAIN mat /\ mat[name].kind = "pbr"

\* onChangeColor that writes the entry only next to a PBR material.
OnChangeColorPBROnly(value, sel, scene, mat) ==
    IF ~Truthy(sel) \/ scene = Null \/ ~IsPBR(mat, sel)
    THEN [calls |-> <<>>, material |-> mat]
    ELSE [calls |-> <<SetEntryCall(sel, value)>>,
          material |-> [mat EXCEPT ![sel].color = FromHexString(value)]]

\* onChangeColor without the check of selectedMaterialName.
OnChangeColorUnchecked(value, sel, scene, mat) ==
    IF scene = Null THEN [calls |-> <<>>, material |-> mat]
    ELSE [calls |-> <<SetEntryCall(sel, value)>>,
          material |->
              IF IsPBR(mat, sel)
              THEN [mat EXCEPT ![sel].color = FromHexString(value)]
              ELSE mat]

\* onChangeColor(value), with the selectedMaterialName it captured.
OnChangeColor(value, sel, scene, mat) ==
    IF ~Truthy(sel) THEN [calls |-> <<>>, material |-> mat]
    ELSE IF scene = Null THEN [calls |-> <<>>, material |-> mat]
    ELSE [calls |-> <<SetEntryCall(sel, value)>>,
          material |->
              IF IsPBR(mat, sel)
              THEN [mat EXCEPT ![sel].color = FromHexString(value)]
              ELSE mat]

\* handlePointerDown that keeps the selection when nothing is hit.
HandlePointerDownKeeps(pick, closureSel, scene, sel) ==
    IF scene = Null THEN sel
    ELSE IF pick \in SceneMaterials THEN pick
    ELSE sel

\* handlePointerDown(evt), with the selectedMaterialName it captured;
\* the result is the new selectedMaterialName.
HandlePointerDown(pick, closureSel, scene, sel) ==
    IF scene = Null THEN sel
    ELSE IF pick \in SceneMaterials THEN pick
    ELSE IF pick = PickNoMaterial THEN sel
    ELSE IF ~Truthy(closureSel) THEN sel
    ELSE Null

\* The handler scene.onPointerDown holds: handlePointerDown of a render
\* whose selectedMaterialName was sel.
PointerHandler(sel) == <<sel>>
NoHandler == <<>>

\* useEffect(..., [handlePointerDown]); handlePointerDown is rebuilt when
\* selectedMaterialName changes.
PointerDownEffect(runs, sel, scene, handler) ==
    IF ~runs THEN handler
    ELSE IF scene # Null THEN PointerHandler(sel)
    ELSE handler

\* Cleanup of the onPointerDown effect.
PointerDownCleanup(scene, handler) ==
    IF scene # Null THEN NoHandler ELSE handler

\* applyRemoteColors(), with the colorsMap it captured.
ApplyRemoteColors(map, scene, mat) ==
    [n \in DOMAIN mat |->
        IF scene # Null /\ map[n] # Absent /\ mat[n].kind = "pbr"
        THEN [mat[n] EXCEPT !.color = FromHexString(map[n])]
        ELSE mat[n]]

\* sendCameraPos(), with the camera it captured.
SendCameraPos(cam, pos) ==
    IF cam = Null THEN <<>>
    ELSE <<UpdateCall(<<pos[1], pos[2], pos[3]>>)>>

\* snapCameraIfFollowingUser(), with the remoteCameraState and the camera
\* it captured; queue is scene.onBeforeRenderObservable.
SnapCameraIfFollowingUser(rs, cam, scene, queue) ==
    IF rs.cameraPosition = Absent THEN [queue |-> queue, calls |-> <<>>]
    ELSE IF rs.isLocalValue THEN [queue |-> queue, calls |-> <<>>]
    ELSE IF cam = Null THEN [queue |-> queue, calls |-> <<>>]
    ELSE IF scene # Null
         THEN [queue |-> Append(queue, rs.cameraPosition),
               calls |-> <<AddOnceCall(rs.cameraPosition)>>]
         ELSE [queue |-> queue, calls |-> <<>>]

\* onCameraViewMatrixChanged without the check of the flag.
OnCameraViewMatrixChangedAlways(applying, cam, pos) ==
    SendCameraPos(cam, pos) \o <<BeginSuspensionCall>>

\* onCameraViewMatrixChanged(), with the sendCameraPos it captured.
OnCameraViewMatrixChanged(applying, cam, pos) ==
    IF ~applying
    THEN SendCameraPos(cam, pos) \o <<BeginSuspensionCall>>
    ELSE <<>>

\* camera.onViewMatrixChangedObservable notifies its observers in order;
\* an observer is the camera its callback captured.
RECURSIVE NotifyObservers(_, _, _)
NotifyObservers(observers, applying, pos) ==
    IF observers = <<>> THEN <<>>
    ELSE OnCameraViewMatrixChanged(applying, Head(observers), pos)
            \o NotifyObservers(Tail(observers), applying, pos)

\* A cleanup that removes nothing.
ViewMatrixCleanupKeeps(cam, observers) == observers

\* Cleanup of the view matrix effect: observer.remove(), when the effect
\* had registered one (its camera was not null).
ViewMatrixCleanup(cam, observers) ==
    IF cam = Null \/ observers = <<>> THEN observers
    ELSE SubSeq(observers, 1, Len(observers) - 1)

\* useEffect(..., [camera, onCameraViewMatrixChanged])
ViewMatrixEffect(runs, oldCam, cam, observers) ==
    IF ~runs THEN observers
    ELSE IF cam = Null THEN ViewMatrixCleanup(oldCam, observers)
    ELSE Append(ViewMatrixCleanup(oldCam, observers), cam)

\* The effect without the check of hasInitiallyPresentedRef.
AutoPresentEffectEveryTime(runs, init, initiator, rs, ref) ==
    IF ~runs THEN [ref |-> ref, calls |-> <<>>]
    ELSE IF init # "succeeded" THEN [ref |-> ref, calls |-> <<>>]
    ELSE IF initiator # "true" THEN [ref |-> ref, calls |-> <<>>]
    ELSE IF rs = UndefinedState THEN [ref |-> ref, calls |-> <<>>]
    ELSE IF rs.type # "local" THEN [ref |-> ref, calls |-> <<>>]
    ELSE [ref |-> TRUE, calls |-> <<StartPresentingCall>>]

\* The effect that starts presenting for the share initiator.
AutoPresentEffect(runs, init, initiator, rs, ref) ==
    IF ~runs THEN [ref |-> ref, calls |-> <<>>]
    ELSE IF init # "succeeded" THEN [ref |-> ref, calls |-> <<>>]
    ELSE IF initiator # "true" THEN [ref |-> ref, calls |-> <<>>]
    ELSE IF rs = UndefinedState THEN [ref |-> ref, calls |-> <<>>]
    ELSE IF rs.type # "local" THEN [ref |-> ref, calls |-> <<>>]
    ELSE IF ref THEN [ref |-> ref, calls |-> <<>>]
    ELSE [ref |-> TRUE, calls |-> <<StartPresentingCall>>]

\* The colour picker is part of the rendered output.
PickerShown == Mounted /\ sharedColorsMap /\ Truthy(selectedMaterialName)

Count(cs, op) == Cardinality({i \in 1..Len(cs) : cs[i].op = op})
Saturate(n) == IF n > MaxAutoPresent THEN MaxAutoPresent ELSE n

\* ------------------------------------------------------------------------
\* A render of LiveObjectViewer and the effects whose dependencies changed.
\* The argument holds the React state of the new render (sel, scene, cam,
\* map, rs, init, initiator), which of the values that are new objects on
\* every change did change (mapNew, rsNew, sdkNew), and the engine objects
\* and the calls as the event handler left them.
\* ------------------------------------------------------------------------
\* The current render again: nothing changed, the handler did nothing.
Current ==
    [sel |-> selectedMaterialName, scene |-> sceneRef, cam |-> camera,
     map |-> colorsMap, mapNew |-> FALSE,
     rs |-> remoteCameraState, rsNew |-> FALSE,
     init |-> initializeState, initiator |-> isShareInitiator,
     sdkNew |-> FALSE,
     material |-> material, handler |-> onPointerDown,
     queue |-> beforeRender, calls |-> <<>>]

Render(r) ==
    LET snapCam2 == IF r.rsNew THEN r.cam ELSE snapCamera
        snap == IF r.rsNew
                THEN SnapCameraIfFollowingUser(r.rs, snapCam2, r.scene,
                                               r.queue)
                ELSE [queue |-> r.queue, calls |-> <<>>]
        auto == AutoPresentEffect(
                    \/ r.initiator # isShareInitiator
                    \/ r.rs.type # remoteCameraState.type
                    \/ r.init # initializeState
                    \/ r.sdkNew,
                    r.init, r.initiator, r.rs, hasInitiallyPresentedRef)
        selNew == r.sel # selectedMaterialName
    IN  /\ selectedMaterialName' = r.sel
        /\ sceneRef' = r.scene
        /\ camera' = r.cam
        /\ colorsMap' = r.map
        /\ remoteCameraState' = r.rs
        /\ initializeState' = r.init
        /\ isShareInitiator' = r.initiator
        /\ snapCamera' = snapCam2
        /\ onPointerDown' =
              PointerDownEffect(selNew, r.sel, r.scene,
                  IF selNew
                  THEN PointerDownCleanup(r.scene, r.handler)
                  ELSE r.handler)
        /\ material' =
              IF r.mapNew
              THEN ApplyRemoteColors(r.map, r.scene, r.material)
              ELSE r.material
        /\ beforeRender' = snap.queue
        /\ viewMatrixObservers' =
              ViewMatrixEffect(r.cam # camera \/ r.sdkNew, camera, r.cam,
                               viewMatrixObservers)
        /\ hasInitiallyPresentedRef' = auto.ref
        /\ calls' = r.calls \o snap.calls \o auto.calls
        /\ autoPresentCount' =
              Saturate(autoPresentCount + Count(auto.calls, "startPresenting"))

\* ------------------------------------------------------------------------
\* Initial state: the provider has not joined, nothing is mounted.
\* ------------------------------------------------------------------------
Event(name, arg) == [name |-> name, arg |-> arg]

\* The values of the first render of LiveObjectViewer, which the
\* onReadyObservable passed to ModelViewerScene's mount effect keeps.
FirstRenderClosure ==
    [colorsMap |-> EmptyMap, remoteCameraState |-> UndefinedState,
     camera |-> Null, selectedMaterialName |-> Null]

Init ==
    /\ joined = FALSE
    /\ joinError = NoError
    /\ rendered = LoadingErrorWrapper(FALSE, NoError)
    /\ mounted = FALSE
    /\ listeners = {}
    /\ viewerCamera = Null
    /\ readyClosure = FirstRenderClosure
    /\ sceneRef = Null
    /\ camera = Null
    /\ selectedMaterialName = Null
    /\ sharedColorsMap = FALSE
    /\ colorsMap = EmptyMap
    /\ remoteCameraState = UndefinedState
    /\ snapCamera = Null
    /\ isApplyingRemoteCameraUpdate = FALSE
    /\ initializeState = "undefined"
    /\ isShareInitiator = "undefined"
    /\ hasInitiallyPresentedRef = FALSE
    /\ material = InitialMaterial
    /\ onPointerDown = NoHandler
    /\ beforeRender = <<>>
    /\ viewMatrixObservers = <<>>
    /\ cameraPosition = InitialCameraPos
    /\ useAutoRotationBehavior = TRUE
    /\ lastEvent = Event("init", "")
    /\ calls = <<>>
    /\ autoPresentCount = 0

\* ------------------------------------------------------------------------
\* Mount and unmount of LiveObjectViewer and ModelViewerScene
\* ------------------------------------------------------------------------
\* First render of a new instance and its mount effects: every hook starts
\* from its initial value, the viewer element and its scene are new.
MountViewer ==
    LET first == FirstRenderClosure
        snap == SnapCameraIfFollowingUser(first.remoteCameraState,
                    first.camera, Null, <<>>)
        auto == AutoPresentEffect(TRUE, "undefined", "undefined",
                    first.remoteCameraState, FALSE)
    IN  /\ mounted' = TRUE
        /\ listeners' = {"viewerready", "modelchange"}
        /\ viewerCamera' = Null
        /\ readyClosure' = first
        /\ sceneRef' = Null
        /\ camera' = first.camera
        /\ selectedMaterialName' = first.selectedMaterialName
        /\ sharedColorsMap' = FALSE
        /\ colorsMap' = first.colorsMap
        /\ remoteCameraState' = first.remoteCameraState
        /\ snapCamera' = first.camera
        /\ isApplyingRemoteCameraUpdate' = FALSE
        /\ initializeState' = "undefined"
        /\ isShareInitiator' = "undefined"
        /\ hasInitiallyPresentedRef' = auto.ref
        /\ material' = ApplyRemoteColors(first.colorsMap, Null,
                                         InitialMaterial)
        /\ onPointerDown' = PointerDownEffect(TRUE,
                                first.selectedMaterialName, Null, NoHandler)
        /\ beforeRender' = snap.queue
        /\ viewMatrixObservers' = ViewMatrixEffect(TRUE, Null, first.camera,
                                                   <<>>)
        /\ cameraPosition' = InitialCameraPos
        /\ useAutoRotationBehavior' = TRUE
        /\ calls' = snap.calls \o auto.calls
        /\ autoPresentCount' = Count(auto.calls, "startPresenting")

\* Unmount: the cleanups of the effects run, then the instance and its
\* state and refs are gone.  The viewer element, its scene and its camera
\* stay as the cleanups left them.
UnmountViewer ==
    /\ mounted' = FALSE
    /\ listeners' = listeners \ {"viewerready"}
    /\ onPointerDown' = PointerDownCleanup(sceneRef, onPointerDown)
    /\ viewMatrixObservers' = ViewMatrixCleanup(camera, viewMatrixObservers)
    /\ calls' = <<>>
    /\ sceneRef' = Null
    /\ camera' = Null
    /\ selectedMaterialName' = Null
    /\ sharedColorsMap' = FALSE
    /\ colorsMap' = EmptyMap
    /\ remoteCameraState' = UndefinedState
    /\ snapCamera' = Null
    /\ initializeState' = "undefined"
    /\ isShareInitiator' = "undefined"
    /\ hasInitiallyPresentedRef' = FALSE
    /\ UNCHANGED << viewerCamera, readyClosure,
                    isApplyingRemoteCameraUpdate, material,
                    beforeRender, cameraPosition, useAutoRotationBehavior,
                    autoPresentCount >>

\* The LiveShareProvider context changes and LoadingErrorWrapper renders.
ContextChanged(j, e) ==
    /\ <<j, e>> # <<joined, joinError>>
    /\ joined' = j
    /\ joinError' = e
    /\ rendered' = LoadingErrorWrapper(j, e)
    /\ lastEvent' = Event("contextChanged", "")
    /\ IF LoadingErrorWrapper(j, e) = ChildrenNode /\ ~Mounted
       THEN MountViewer
       ELSE IF LoadingErrorWrapper(j, e) # ChildrenNode /\ Mounted
       THEN UnmountViewer
       ELSE /\ calls' = <<>>
            /\ UNCHANGED << viewerVars, renderVars, engineVars,
                            sharedColorsMap >>

\* ------------------------------------------------------------------------
\* Events of the babylon-viewer element
\* ------------------------------------------------------------------------
\* "viewerready": the listener of ModelViewerScene calls the
\* onReadyObservable of LiveObjectViewer's first render.
ViewerReady ==
    /\ "viewerready" \in listeners
    /\ listeners' = listeners \ {"viewerready"}
    /\ viewerCamera' = TheCamera
    /\ lastEvent' = Event("viewerready", "")
    /\ LET snap == SnapCameraIfFollowingUser(readyClosure.remoteCameraState,
                       readyClosure.camera, TheScene, beforeRender)
       IN  Render([Current EXCEPT
                  !.scene = TheScene,
                  !.handler =
                      PointerHandler(readyClosure.selectedMaterialName),
                  !.material = ApplyRemoteColors(readyClosure.colorsMap,
                                                 TheScene, material),
                  !.queue = snap.queue,
                  !.calls = snap.calls,
                  !.cam = TheCamera])
    /\ UNCHANGED << contextVars, mounted, readyClosure, engineVars,
                    sharedColorsMap >>

\* "modelchange"
ModelChange ==
    /\ "modelchange" \in listeners
    /\ lastEvent' = Event("modelchange", "")
    /\ IF viewerCamera # Null
       THEN /\ useAutoRotationBehavior' = FALSE
            /\ calls' = <<AutoRotationOffCall>>
       ELSE /\ useAutoRotationBehavior' = useAutoRotationBehavior
            /\ calls' = <<>>
    /\ UNCHANGED << contextVars, viewerVars, renderVars, sharedColorsMap,
                    cameraPosition, isApplyingRemoteCameraUpdate >>

\* ------------------------------------------------------------------------
\* The shared colours map
\* ------------------------------------------------------------------------
\* useSharedMap has loaded the "COLORS" map, with the entries it holds.
SharedMapLoaded(m) ==
    /\ Mounted
    /\ ~sharedColorsMap
    /\ sharedColorsMap' = TRUE
    /\ lastEvent' = Event("sharedMapLoaded", "")
    /\ Render([Current EXCEPT !.map = m, !.mapNew = TRUE])
    /\ UNCHANGED << contextVars, viewerVars, engineVars >>

\* Another client has set an entry of the map.
ColorsMapChanged(k, v) ==
    /\ Mounted
    /\ sharedColorsMap
    /\ lastEvent' = Event("colorsMapChanged", k)
    /\ Render([Current EXCEPT !.map = [colorsMap EXCEPT ![k] = v],
                               !.mapNew = TRUE])
    /\ UNCHANGED << contextVars, viewerVars, engineVars, sharedColorsMap >>

\* The map after the setEntry calls of cs.
RECURSIVE ApplySetEntries(_, _)
ApplySetEntries(map, cs) ==
    IF cs = <<>> THEN map
    ELSE ApplySetEntries(
            IF Head(cs).op = "setEntry"
            THEN [map EXCEPT ![Head(cs).key] = Head(cs).value]
            ELSE map,
            Tail(cs))

\* onChangeColor(value) is called; a write to the map comes back as a
\* change of colorsMap.
CallOnChangeColor(value, name) ==
    /\ lastEvent' = Event(name, "")
    /\ LET r == OnChangeColor(value, selectedMaterialName, sceneRef,
                              material)
       IN  Render([Current EXCEPT
                  !.material = r.material,
                  !.calls = r.calls,
                  !.map = ApplySetEntries(colorsMap, r.calls),
                  !.mapNew = r.calls # <<>>])
    /\ UNCHANGED << contextVars, viewerVars, engineVars, sharedColorsMap >>

\* The user picks a colour in the HexColorPicker.
ChangeColor(value) ==
    /\ PickerShown
    /\ CallOnChangeColor(value, "changeColor")

\* The user presses a pointer button over the scene.
PointerDown(pick) ==
    /\ Mounted
    /\ onPointerDown # NoHandler
    /\ lastEvent' = Event("pointerDown", pick)
    /\ Render([Current EXCEPT
              !.sel = HandlePointerDown(pick, onPointerDown[1], sceneRef,
                                        selectedMaterialName)])
    /\ UNCHANGED << contextVars, viewerVars, engineVars, sharedColorsMap >>

\* ------------------------------------------------------------------------
\* Follow mode
\* ------------------------------------------------------------------------
\* useLiveFollowMode reports a new state object.
RemoteStateChanged(rs) ==
    /\ Mounted
    /\ Len(beforeRender) < MaxPending
    /\ lastEvent' = Event("remoteStateChanged", "")
    /\ Render([Current EXCEPT !.rs = rs, !.rsNew = TRUE])
    /\ UNCHANGED << contextVars, viewerVars, engineVars, sharedColorsMap >>

\* liveFollowMode.initializeState changes.
InitializeStateChanged(s) ==
    /\ Mounted
    /\ s # initializeState
    /\ lastEvent' = Event("initializeStateChanged", "")
    /\ Render([Current EXCEPT !.init = s])
    /\ UNCHANGED << contextVars, viewerVars, engineVars, sharedColorsMap >>

\* useSharingStatus reports a new status.
SharingStatusChanged(v) ==
    /\ Mounted
    /\ v # isShareInitiator
    /\ lastEvent' = Event("sharingStatusChanged", "")
    /\ Render([Current EXCEPT !.initiator = v])
    /\ UNCHANGED << contextVars, viewerVars, engineVars, sharedColorsMap >>

\* useLiveFollowMode returns new startPresenting, update and
\* beginSuspension functions.
SdkCallbacksChanged ==
    /\ Mounted
    /\ lastEvent' = Event("sdkCallbacksChanged", "")
    /\ Render([Current EXCEPT !.sdkNew = TRUE])
    /\ UNCHANGED << contextVars, viewerVars, engineVars, sharedColorsMap >>

\* ------------------------------------------------------------------------
\* The camera
\* ------------------------------------------------------------------------
\* The callbacks snapCameraIfFollowingUser added with addOnce, run in
\* order: each sets the flag, moves the camera, which notifies the view
\* matrix observers, and clears the flag.
RECURSIVE RunBeforeRender(_, _)
RunBeforeRender(queue, observers) ==
    IF queue = <<>> THEN <<>>
    ELSE NotifyObservers(observers, TRUE, Head(queue))
            \o RunBeforeRender(Tail(queue), observers)

BeforeRender ==
    /\ Mounted
    /\ beforeRender # <<>>
    /\ lastEvent' = Event("beforeRender", "")
    /\ cameraPosition' = beforeRender[Len(beforeRender)]
    /\ isApplyingRemoteCameraUpdate' = FALSE
    /\ calls' = RunBeforeRender(beforeRender, viewMatrixObservers)
    /\ beforeRender' = <<>>
    /\ UNCHANGED << contextVars, viewerVars, sharedColorsMap,
                    selectedMaterialName, sceneRef, camera, colorsMap,
                    remoteCameraState, initializeState, isShareInitiator,
                    snapCamera, onPointerDown, material,
                    viewMatrixObservers, hasInitiallyPresentedRef,
                    autoPresentCount, useAutoRotationBehavior >>

\* The camera moves for any other reason (the user drags, the viewer
\* frames the model).
LocalCameraMove(p) ==
    /\ Mounted
    /\ viewerCamera # Null
    /\ p # cameraPosition
    /\ lastEvent' = Event("localCameraMove", "")
    /\ cameraPosition' = p
    /\ calls' = NotifyObservers(viewMatrixObservers,
                                isApplyingRemoteCameraUpdate, p)
    /\ UNCHANGED << contextVars, viewerVars, sharedColorsMap, renderVars,
                    useAutoRotationBehavior, isApplyingRemoteCameraUpdate >>

\* ------------------------------------------------------------------------
\* Direct calls of callbacks in states where the user interface offers
\* no way to call them: the references they check are absent.
\* ------------------------------------------------------------------------
OnChangeColorWithoutSelection(value) ==
    /\ Mounted
    /\ ~Truthy(selectedMaterialName) \/ sceneRef = Null
    /\ CallOnChangeColor(value, "onChangeColor")

SendCameraPosWithoutCamera ==
    /\ Mounted
    /\ camera = Null
    /\ lastEvent' = Event("sendCameraPos", "")
    /\ calls' = SendCameraPos(camera, cameraPosition)
    /\ UNCHANGED << contextVars, viewerVars, sharedColorsMap, renderVars,
                    engineVars >>

\* ------------------------------------------------------------------------
\* The header bar
\* ------------------------------------------------------------------------
Button(label, onClick, appearance) ==
    [label |-> label, onClick |-> onClick, appearance |-> appearance]

\* The header with "Stop following" offered for followUser alone.
HeaderButtonsFollowUserOnly(rs) ==
    IF rs = UndefinedState THEN <<>>
    ELSE (IF rs.type = "local" \/ rs.type = "activeFollowers"
          THEN <<Button("Spotlight me", "startPresenting", "primary")>>
          ELSE <<>>)
      \o (IF rs.type = "activePresenter"
          THEN <<Button("Stop spotlight", "stopPresenting", "primary")>>
          ELSE <<>>)
      \o (IF rs.type = "followUser"
          THEN <<Button("Stop following", "stopFollowing", "primary")>>
          ELSE <<>>)
      \o (IF rs.type = "followPresenter"
             \/ rs.type = "suspendFollowPresenter"
          THEN <<Button("Take control", "startPresenting", "secondary")>>
          ELSE <<>>)

\* The buttons in the `right` slot of TopHeaderBar, in render order; no
\* header is rendered without a remoteCameraState.
HeaderButtons(rs) ==
    IF rs = UndefinedState THEN <<>>
    ELSE (IF rs.type = "local" \/ rs.type = "activeFollowers"
          THEN <<Button("Spotlight me", "startPresenting", "primary")>>
          ELSE <<>>)
      \o (IF rs.type = "activePresenter"
          THEN <<Button("Stop spotlight", "stopPresenting", "primary")>>
          ELSE <<>>)
      \o (IF rs.type = "suspendFollowUser" \/ rs.type = "followUser"
          THEN <<Button("Stop following", "stopFollowing", "primary")>>
          ELSE <<>>)
      \o (IF rs.type = "followPresenter"
             \/ rs.type = "suspendFollowPresenter"
          THEN <<Button("Take control", "startPresenting", "secondary")>>
          ELSE <<>>)

\* The user clicks the i-th button of the header: its onClick, a function
\* of useLiveFollowMode, is called.
HeaderButtonClicked(i) ==
    /\ Mounted
    /\ i \in 1..Len(HeaderButtons(remoteCameraState))
    /\ lastEvent' =
          Event("headerClick", HeaderButtons(remoteCameraState)[i].label)
    /\ calls' =
          <<Call(HeaderButtons(remoteCameraState)[i].onClick, "", Absent)>>
    /\ UNCHANGED << contextVars, viewerVars, sharedColorsMap, renderVars,
                    engineVars >>

\* ------------------------------------------------------------------------
\* Specifications
\* ------------------------------------------------------------------------
JoinErrors == {NoError} \cup ErrorMessages

Lifecycle ==
    \/ \E j \in BOOLEAN, e \in JoinErrors : ContextChanged(j, e)
    \/ ViewerReady
    \/ ModelChange

ColorEvents(maps, keys, values) ==
    \/ \E m \in maps : SharedMapLoaded(m)
    \/ \E k \in keys, v \in values : ColorsMapChanged(k, v)
    \/ \E v \in values : ChangeColor(v)
    \/ \E pick \in Picks : PointerDown(pick)

CameraEvents(states, positions) ==
    \/ \E rs \in states : RemoteStateChanged(rs)
    \/ SdkCallbacksChanged
    \/ BeforeRender
    \/ \E p \in positions \cup {InitialCameraPos} : LocalCameraMove(p)

PresentEvents(states) ==
    \/ \E rs \in states : RemoteStateChanged(rs)
    \/ \E s \in InitializeStates : InitializeStateChanged(s)
    \/ \E v \in ShareInitiatorValues : SharingStatusChanged(v)
    \/ SdkCallbacksChanged

DirectCalls(values) ==
    \/ \E v \in values : OnChangeColorWithoutSelection(v)
    \/ SendCameraPosWithoutCamera

\* The colours: every content of the map, every pick.
NextColors == Lifecycle \/ ColorEvents(AllMaps, MapKeys, HexValues)
SpecColors == Init /\ [][NextColors]_vars

\* The camera: every follow-mode state with and without a position.
NextCamera ==
    Lifecycle \/ CameraEvents(FollowStates(FollowModeTypes, Positions),
                              Positions)
SpecCamera == Init /\ [][NextCamera]_vars

\* Presenting: every follow-mode type, initialize state and sharing status.
NextPresent == Lifecycle \/ PresentEvents(FollowStates(FollowModeTypes, {}))
SpecPresent == Init /\ [][NextPresent]_vars

\* The header: presenting, and clicks on the header's buttons.
MaxHeaderButtons == 4
NextHeader ==
    \/ Lifecycle
    \/ PresentEvents(FollowStates(FollowModeTypes, {}))
    \/ \E i \in 1..MaxHeaderButtons : HeaderButtonClicked(i)
SpecHeader == Init /\ [][NextHeader]_vars

\* Colours and camera together, and the direct calls, over one colour
\* value, one position and the follow-mode types "local" and
\* "followPresenter".
SmallMaps == [MapKeys -> {Red, Absent}]
SmallStates == FollowStates({"local", "followPresenter"}, {<<1, 2, 3>>})
Next ==
    \/ Lifecycle
    \/ ColorEvents(SmallMaps, MapKeys, {Red})
    \/ CameraEvents(SmallStates, {<<1, 2, 3>>})
    \/ DirectCalls({Red})
Spec == Init /\ [][Next]_vars

\* ------------------------------------------------------------------------
\* Properties
\* ------------------------------------------------------------------------
\* C1: with a joinError the wrapper shows the error's message and no
\* LiveObjectViewer is mounted, whatever joined is; with no joinError and
\* joined false it shows the spinner alone; the children are rendered, and
\* LiveObjectViewer is mounted, exactly when joined holds without joinError.
JoinErrorIsShown ==
    /\ joinError # NoError => rendered = TextNode(joinError) /\ ~mounted
    /\ joinError = NoError /\ ~joined => rendered = SpinnerNode /\ ~mounted
    /\ rendered = ChildrenNode <=> joined /\ joinError = NoError
    /\ mounted <=> rendered = ChildrenNode

\* A join error arrives while joined holds and a viewer had been mounted.
JoinErrorWhileJoined ==
    /\ joined
    /\ joinError # NoError
    /\ "modelchange" \in listeners

\* C2: absent references are checked before use and leave shared state
\* untouched.  (a) onChangeColor with no selected material or no scene
\* writes no map entry and changes no material; (b) sendCameraPos with no
\* camera pushes no update; (c) a camera move is scheduled only with a
\* camera, a scene and a remote cameraPosition; (d) materials change only
\* with a scene, and only PBR materials change; (e) a modelchange event
\* before viewerready touches no camera.
AbsentReferencesStep ==
    /\ /\ lastEvent'.name \in {"onChangeColor", "changeColor"}
       /\ ~Truthy(selectedMaterialName) \/ sceneRef = Null
       => /\ calls' = <<>>
          /\ colorsMap' = colorsMap
          /\ material' = material
    /\ /\ lastEvent'.name \in {"sendCameraPos", "localCameraMove"}
       /\ camera = Null
       => "update" \notin Ops(calls')
    /\ "addOnce" \in Ops(calls') \/ Len(beforeRender') > Len(beforeRender)
       => /\ camera' # Null
          /\ sceneRef' # Null
          /\ remoteCameraState'.cameraPosition # Absent
    /\ mounted /\ mounted'
       => \A n \in SceneMaterials :
             material'[n] # material[n]
                => sceneRef' # Null /\ IsPBR(material, n)
    /\ lastEvent'.name = "modelchange" /\ viewerCamera = Null
       => /\ calls' = <<>>
          /\ useAutoRotationBehavior' = useAutoRotationBehavior
          /\ cameraPosition' = cameraPosition

AbsentReferencesAreChecked == [][AbsentReferencesStep]_vars

\* sendCameraPos was called with no camera, after a remote camera position
\* and a coloured map arrived with neither camera nor scene: nothing was
\* scheduled, pushed or coloured.
CalledWithAbsentReferences ==
    /\ lastEvent.name = "sendCameraPos"
    /\ camera = Null
    /\ sceneRef = Null
    /\ remoteCameraState.cameraPosition # Absent
    /\ ~remoteCameraState.isLocalValue
    /\ colorsMap["body"] # Absent
    /\ material = InitialMaterial
    /\ beforeRender = <<>>

\* C3: every listener ModelViewerScene registers on the viewer element is
\* removed when it unmounts, so that afterwards no viewerready event calls
\* onReadyObservable and no modelchange event modifies the camera.
ListenersRemovedOnUnmount == ~mounted => listeners = {}

\* C4: whenever the scene is ready, every PBR material of the scene whose
\* name is a key of the colours map has the map's value as albedo colour,
\* also when the map held entries before the scene became ready.
MaterialsFollowColorsMap ==
    sceneRef # Null =>
        \A n \in SceneMaterials :
            IsPBR(material, n) /\ colorsMap[n] # Absent
                => material[n].color = FromHexString(colorsMap[n])

\* C5: onChangeColor(value) with a selected material and a ready scene
\* writes the one entry selectedMaterialName -> value and no other key,
\* whether or not the scene holds a PBR material of that name; the
\* material's albedo becomes value only when it is a PBR material.
ChangeColorStep ==
    lastEvent'.name = "changeColor" =>
        \E v \in HexValues :
            /\ calls' = <<SetEntryCall(selectedMaterialName, v)>>
            /\ colorsMap' = [colorsMap EXCEPT ![selectedMaterialName] = v]
            /\ IsPBR(material, selectedMaterialName)
                  => material'[selectedMaterialName].color = FromHexString(v)
            /\ ~IsPBR(material, selectedMaterialName)
                  => material'[selectedMaterialName]
                        = material[selectedMaterialName]

PointerDownStepClaimed ==
    lastEvent'.name = "pointerDown" =>
        /\ lastEvent'.arg \in SceneMaterials
              => selectedMaterialName' = lastEvent'.arg /\ PickerShown'
        /\ lastEvent'.arg = PickMiss
              => selectedMaterialName' = Null /\ ~PickerShown'

PointerDownShowsPicker == [][PointerDownStepClaimed]_vars

\* C6, amended: a pointer-down that hits a mesh with a material selects
\* that material, and the picker is shown for it exactly when the shared
\* map is available; a hit on a mesh without material leaves the selection
\* as it was; a pointer-down that hits no mesh clears the selection and no
\* picker is shown.
PointerDownStep ==
    lastEvent'.name = "pointerDown" =>
        /\ lastEvent'.arg \in SceneMaterials
              => /\ selectedMaterialName' = lastEvent'.arg
                 /\ PickerShown' <=> sharedColorsMap'
        /\ lastEvent'.arg = PickNoMaterial
              => selectedMaterialName' = selectedMaterialName
        /\ lastEvent'.arg = PickMiss
              => selectedMaterialName' = Null /\ ~PickerShown'

PointerDownSelectsMaterial == [][PointerDownStep]_vars

\* A pointer-down hit a mesh while the map was available: the picker is
\* shown for the material of the mesh.
PickerShownForPickedMesh ==
    /\ lastEvent = Event("pointerDown", "glass")
    /\ selectedMaterialName = "glass"
    /\ onPointerDown = PointerHandler("glass")
    /\ PickerShown

\* C7: whenever the tracked state carries a cameraPosition, is not the
\* local user's value, and scene and camera are available, the camera move
\* to that position is scheduled for the next render, when the remote
\* state changes and when the scene becomes ready with such a state
\* present; the scheduled moves are applied before the render; nothing is
\* scheduled for the local user's value.
SnapStep ==
    /\ /\ lastEvent'.name \in {"remoteStateChanged", "viewerready"}
       /\ remoteCameraState'.cameraPosition # Absent
       /\ ~remoteCameraState'.isLocalValue
       /\ sceneRef' # Null
       /\ camera' # Null
       => beforeRender'
             = Append(beforeRender, remoteCameraState'.cameraPosition)
    /\ /\ lastEvent'.name \in {"remoteStateChanged", "viewerready"}
       /\ remoteCameraState'.isLocalValue
       => beforeRender' = beforeRender
    /\ lastEvent'.name = "beforeRender"
       => /\ cameraPosition' = beforeRender[Len(beforeRender)]
          /\ beforeRender' = <<>>

CameraSnapsToRemotePosition == [][SnapStep]_vars

\* C8: a view matrix change made by applying a remote camera position
\* causes no camera-position update and no beginSuspension; any other
\* view matrix change causes one update with the camera's x, y, z and then
\* one beginSuspension.
EchoStep ==
    /\ lastEvent'.name = "beforeRender" => calls' = <<>>
    /\ lastEvent'.name = "localCameraMove"
       => calls' = << UpdateCall(cameraPosition'), BeginSuspensionCall >>

NoEchoOfRemoteCamera == [][EchoStep]_vars

\* A remote position was applied to a camera that has the observer.
RemotePositionApplied ==
    /\ lastEvent.name = "beforeRender"
    /\ viewMatrixObservers # <<>>
    /\ cameraPosition \in Positions
    /\ calls = <<>>

\* C9: startPresenting is called automatically at most once in the life
\* of a LiveObjectViewer, and only with initializeState succeeded, the
\* local user the share initiator and the tracked type local; once it has
\* been called, no later render calls it again.
AutoPresentStep ==
    /\ autoPresentCount' <= 1
    /\ "startPresenting" \in Ops(calls')
       => /\ calls' = <<StartPresentingCall>>
          /\ initializeState' = "succeeded"
          /\ isShareInitiator' = "true"
          /\ remoteCameraState'.type = "local"
          /\ ~hasInitiallyPresentedRef
    /\ hasInitiallyPresentedRef /\ mounted'
       => "startPresenting" \notin Ops(calls')

PresentsAutomaticallyOnce == [][AutoPresentStep]_vars

\* The effect ran again with every condition met after the first call, and
\* called nothing.
SecondRunCallsNothing ==
    /\ lastEvent.name = "sdkCallbacksChanged"
    /\ initializeState = "succeeded"
    /\ isShareInitiator = "true"
    /\ remoteCameraState.type = "local"
    /\ hasInitiallyPresentedRef
    /\ autoPresentCount = 1
    /\ calls = <<>>

\* C10: the camera has at most one view matrix observer of
\* LiveObjectViewer, and only while the camera state is set and the
\* component mounted; after unmount none remains and scene.onPointerDown
\* is cleared.
OneViewMatrixObserver ==
    /\ Len(viewMatrixObservers) <= 1
    /\ viewMatrixObservers # <<>> => camera # Null /\ mounted
    /\ ~mounted => viewMatrixObservers = <<>> /\ onPointerDown = NoHandler

\* The observer was registered again for new callbacks.
ObserverRegisteredAgain ==
    /\ lastEvent.name = "sdkCallbacksChanged"
    /\ viewMatrixObservers = <<TheCamera>>

\* C11: with a follow-mode state there is exactly one header button for
\* each of the seven types, 'Spotlight me' (startPresenting) for local
\* and activeFollowers, 'Stop spotlight' (stopPresenting) for
\* activePresenter, 'Stop following' (stopFollowing) for followUser and
\* suspendFollowUser, 'Take control' (startPresenting) for followPresenter
\* and suspendFollowPresenter; without a state there is no header button;
\* a click on the button calls the function named.
HeaderActionOf(type) ==
    CASE type \in {"local", "activeFollowers"}
            -> <<"Spotlight me", "startPresenting">>
      [] type = "activePresenter"
            -> <<"Stop spotlight", "stopPresenting">>
      [] type \in {"followUser", "suspendFollowUser"}
            -> <<"Stop following", "stopFollowing">>
      [] type \in {"followPresenter", "suspendFollowPresenter"}
            -> <<"Take control", "startPresenting">>
      [] OTHER -> <<>>

HeaderStep ==
    LET shown == HeaderButtons(remoteCameraState')
        type == remoteCameraState'.type
    IN  /\ remoteCameraState' = UndefinedState => shown = <<>>
        /\ remoteCameraState' # UndefinedState
           => /\ type \in FollowModeTypes
              /\ Len(shown) = 1
              /\ <<shown[1].label, shown[1].onClick>> = HeaderActionOf(type)
        /\ lastEvent'.name = "headerClick"
           => /\ remoteCameraState' # UndefinedState
              /\ lastEvent'.arg = HeaderActionOf(type)[1]
              /\ calls' = <<Call(HeaderActionOf(type)[2], "", Absent)>>

HeaderActionIsTotalAndExclusive == [][HeaderStep]_vars

\* 'Stop following' was clicked while following a user is suspended.
StopFollowingClickedWhileSuspended ==
    /\ lastEvent = Event("headerClick", "Stop following")
    /\ remoteCameraState.type = "suspendFollowUser"
    /\ calls = <<Call("stopFollowing", "", Absent)>>

====
